---------------------------- MODULE Spec2Model ----------------------------
(* Model of lutris-gridder's src/cover_downloader.py: the catalog client   *)
(* (SteamGridDBAPI), the resolution pipeline (CoverArtDownloader           *)
(* .process_games, main) and the image transformer (ImageProcessor         *)
(* .crop_to_fit).                                                          *)
EXTENDS Integers, Sequences, FiniteSets, TLC

(***************************************************************************)
(* Bounds of the model.                                                    *)
(***************************************************************************)
MaxGames == 2     \* longest library listing
MaxNames == 3     \* longest list of names given to search_games on its own
MaxCands == 3     \* longest list of games given to get_cover_url on its own
MaxDim == 9       \* largest width and height given to crop_to_fit on its own

(***************************************************************************)
(* Values.                                                                 *)
(***************************************************************************)
\* rows (name, slug) the library store may hold; a listing may hold the
\* same row twice
Records == {<<"A", "a">>, <<"B", "b">>}
Slugs == {"a", "b"}
Dirs == {"banners", "coverart"}
Paths == Dirs \X Slugs

Libraries == UNION {[1..n -> Records] : n \in 0..MaxGames}

\* non-empty "data" arrays of a search answer: the ranked lists
\* <<1>>, <<2, 1>>, ..., in which rank and id differ
Ranked(n) == [i \in 1..n |-> n + 1 - i]
SearchData == {Ranked(1), Ranked(2)}

\* the "data" array of a cover lookup that found covers for game `id`
Covers(id) == <<<<"cover", id, 1>>, <<"cover", id, 2>>>>

\* the answer of one catalog request: status "fail" is a RequestException
\* (network error or non-2xx), "ok" carries the JSON body's "data" array
Fail == [status |-> "fail", data |-> <<>>]
Ok(d) == [status |-> "ok", data |-> d]
SearchAnswers == {Fail, Ok(<<>>)} \cup {Ok(d) : d \in SearchData}
GridAnswers(id) == {Fail, Ok(<<>>), Ok(Covers(id))}

\* contents of a file of the cache directory
None == <<"None", 0, 0>>
NoFile == <<"none", None>>
Old == <<"old", None>>
Raw(u) == <<"raw", u>>
Partial(u) == <<"partial", u>>
Truncated(u) == <<"truncated", u>>
Cropped(u) == <<"cropped", u>>

Config_BANNER_DIMENSIONS == <<574, 215>>
Config_COVER_DIMENSIONS == <<675, 900>>

VARIABLES
    pc,                \* position in main / process_games
    run,               \* which run of main() this is
    db,                \* rows of the library store's games table
    files,             \* the cache directories: path -> content
    searchAns,         \* catalog's answers to /search/autocomplete/{name}
    gridAns,           \* catalog's answers to /grids/game/{id}?dimensions=
    dlAns,             \* outcome of downloading a cover url
    wrAns,             \* outcome of writing a path of the cache
    dimension_str, cover_path, target_dimensions, crop_to_fit,
    games,             \* process_games' local `games`
    listing,           \* the list object enumerate() iterates
    total_games, index,
    cover_url, content,
    state,             \* per game of the listing: its pipeline state
    trace,             \* requests and calls issued for the current game
    error,             \* the exception that ended the run, "none" if none
    exit_status,       \* -1 while running
    store,             \* whether the games table can be queried
    choices,           \* what the user answers to the two prompts
    prev,              \* files, states and selections at the end of the last run
    output,            \* lines printed by this run, in order
    log,               \* records logged by this run, in order
    questions,         \* messages of the prompts shown by this run
    cache_dirs,        \* the cache directories that exist
    config,            \* the api_key of the configuration file
    api_key,           \* the token of self.api
    call,              \* a call of the catalog client on its own
    crop               \* a call of ImageProcessor.crop_to_fit on its own

pipeVars == <<pc, run, db, files, searchAns, gridAns, dlAns, wrAns,
              dimension_str, cover_path, target_dimensions, crop_to_fit,
              games, listing, total_games, index, cover_url, content,
              state, trace, error, exit_status, store, choices, prev,
              output, log, questions, cache_dirs, config, api_key>>

vars == <<pipeVars, call, crop>>

\* what the loop of process_games never changes
setupVars == <<questions, cache_dirs, config, api_key>>

Empty == [x \in {} |-> Fail]

(***************************************************************************)
(* SteamGridDBAPI.search_games: `ans` gives the catalog's answer for every *)
(* name.  Returns the value returned and the requests issued, in order.    *)
(***************************************************************************)
RECURSIVE search_games(_, _)
search_games(game_names, ans) ==
    IF game_names = <<>> THEN [found |-> FALSE, games |-> <<>>, reqs |-> <<>>]
    ELSE LET game_name == game_names[1]
             this == <<"search", game_name>>
             rest == search_games(Tail(game_names), ans)
         IN  IF ans[game_name].status = "fail"
             THEN \* except RequestException: recurse on game_names[1:]
                  [rest EXCEPT !.reqs = <<this>> \o @]
             ELSE IF ans[game_name].data # <<>>
             THEN \* data.get("data") is truthy: return games
                  [found |-> TRUE, games |-> ans[game_name].data,
                   reqs |-> <<this>>]
             ELSE \* data.get("data") is falsy: the function falls off its
                  \* end and returns None (the inner else is never entered)
                  [found |-> FALSE, games |-> <<>>, reqs |-> <<this>>]

\* get_cover_url without the fallback to the next game
get_cover_url_first_only(gs, ans) ==
    IF gs = <<>>
    THEN [raised |-> "IndexError", url |-> None, reqs |-> <<>>]
    ELSE IF ans[gs[1]].status = "fail" \/ ans[gs[1]].data = <<>>
         THEN [raised |-> "none", url |-> None, reqs |-> <<<<"grids", gs[1]>>>>]
         ELSE [raised |-> "none", url |-> ans[gs[1]].data[1],
               reqs |-> <<<<"grids", gs[1]>>>>]

(***************************************************************************)
(* SteamGridDBAPI.get_cover_url: `ans` gives the catalog's answer for      *)
(* every id, for the call's dimension string.                              *)
(***************************************************************************)
RECURSIVE get_cover_url(_, _)
get_cover_url(gs, ans) ==
    IF gs = <<>>
    THEN \* games[0] on an empty list: IndexError, not a RequestException
         [raised |-> "IndexError", url |-> None, reqs |-> <<>>]
    ELSE LET this == <<"grids", gs[1]>>
             rest == get_cover_url(Tail(gs), ans)
         IN  IF ans[gs[1]].status = "fail" \/ ans[gs[1]].data = <<>>
             THEN [rest EXCEPT !.reqs = <<this>> \o @]
             ELSE [raised |-> "none", url |-> ans[gs[1]].data[1],
                   reqs |-> <<this>>]

\* Exists without the test: every cover is fetched again
ExistsNever(path) == FALSE
Exists(path) == files[path] # NoFile

AllPending(n) == [i \in 1..n |-> "Pending"]

\* the answers a user can give: the crop prompt is not shown for banners
Choices == {<<"Banner (460x215)", "-">>,
            <<"Vertical (600x900)", "Yes">>, <<"Vertical (600x900)", "No">>}

\* CoverArtDownloader._get_cover_type: "Banner" in answer
CoverType(answer) ==
    IF answer = "Banner (460x215)"
    THEN <<"460x215", "banners", Config_BANNER_DIMENSIONS>>
    ELSE <<"600x900", "coverart", Config_COVER_DIMENSIONS>>

\* _get_crop_to_fit that answers True whatever was chosen
CropToFitAlways(answer) == TRUE
\* CoverArtDownloader._get_crop_to_fit: "Yes" in answer
CropToFitAnswer(answer) == answer = "Yes"

NoCall == [op |-> "none"]
NoCrop == [op |-> "none"]

Snapshot(f, st, dir, crop_choice, err) ==
    [files |-> f, state |-> st, cover_path |-> dir,
     crop_to_fit |-> crop_choice, error |-> err,
     cache_dirs |-> cache_dirs, config |-> config]

\* a line of standard output: print(f"[{index}/{total_games}] ...: {name}")
\* and the other prints, with 0 and "" for what a line does not carry
Line(kind, i, n, text, name) == <<kind, i, n, text, name>>
\* a record of the log: logging.error(f"<message> <subject>: {str(e)}")
Record(level, message, subject, exception) ==
    <<level, message, subject, exception>>
\* one record for every request of `reqs` that raised a RequestException.
\* The message interpolates str(e) only, and the text of a requests
\* exception carries the url: the name searched for, or a catalog id.
RequestErrors(reqs, ans, message) ==
    LET failed == SelectSeq(reqs, LAMBDA q : ans[q[2]].status = "fail")
    IN  [i \in 1..Len(failed) |->
           Record("error", message,
                  IF failed[i][1] = "search" THEN failed[i][2] ELSE "",
                  "RequestException")]

\* the state of a machine on which main() is started for the first time
PipelineInit ==
    /\ pc = "start"
    /\ run = 1
    /\ \/ store = "ok" /\ db \in Libraries
       \/ store \in {"unreadable", "missing"} /\ db = <<>>
    /\ choices \in Choices
    \* a run reads and writes the directory of its cover type only
    /\ files \in {f \in [Paths -> {NoFile, Old}] :
                    \A p \in Paths : p[1] # CoverType(choices[1])[2]
                                        => f[p] = NoFile}
    /\ searchAns = Empty /\ gridAns = Empty /\ dlAns = Empty /\ wrAns = Empty
    /\ dimension_str = "" /\ cover_path = "" /\ target_dimensions = <<0, 0>>
    /\ crop_to_fit = FALSE
    /\ games = <<>> /\ listing = <<>> /\ total_games = 0 /\ index = 0
    /\ cover_url = None /\ content = NoFile
    /\ state = <<>> /\ trace = <<>>
    /\ error = "none" /\ exit_status = -1
    \* the directory of a file exists; an empty one may not exist yet
    /\ cache_dirs \in {d \in SUBSET {CoverType(choices[1])[2]} :
                         \A p \in Paths : files[p] # NoFile => p[1] \in d}
    \* the key of the configuration file: empty on a first run
    /\ config \in {"", "stored"}
    /\ api_key = ""
    /\ questions = <<>>
    /\ prev = Snapshot(files, <<>>, "", FALSE, "none")
    /\ output = <<>> /\ log = <<>>

Init ==
    /\ PipelineInit
    /\ call = NoCall
    /\ crop = NoCrop

(***************************************************************************)
(* The head of main: the welcome line and CoverArtDownloader(), which      *)
(* loads the configuration, builds the catalog client with the stored key  *)
(* and builds the library reader, whose constructor tests that the store's *)
(* path exists.  The FileNotFoundError reaches main's except Exception.    *)
(***************************************************************************)
\* a reader that does not test the path when it is constructed
LutrisDB_validate_db_path_lazy(s) == TRUE
\* LutrisDB._validate_db_path: whether the constructor returns
LutrisDB_validate_db_path(s) == s # "missing"

Construct ==
    /\ pc = "start"
    /\ output' = Append(output, Line("welcome", 0, 0,
                                      "Welcome to Lutris Cover Art Downloader!",
                                      ""))
    /\ api_key' = config
    /\ IF LutrisDB_validate_db_path(store)
       THEN /\ pc' = IF config = "" THEN "setup" ELSE "prompt"
            /\ UNCHANGED <<error, exit_status, log>>
       ELSE /\ error' = "FileNotFoundError"
            /\ exit_status' = 1
            /\ pc' = "exit"
            /\ log' = Append(log, Record("error", "Unexpected error", "",
                                         "FileNotFoundError"))
    /\ UNCHANGED <<run, db, files, searchAns, gridAns, dlAns, wrAns,
                   dimension_str, cover_path, target_dimensions, crop_to_fit,
                   games, listing, total_games, index, cover_url, content,
                   state, trace, store, choices, prev, call, crop,
                   questions, cache_dirs, config>>

(***************************************************************************)
(* CoverArtDownloader.setup_api_key, called by main when the stored key is *)
(* empty: the key typed by the user is tried with one search for "test".   *)
(* A truthy result saves the key and makes the trial client the client of  *)
(* the batch; otherwise ValueError is raised and caught, and sys.exit(1)   *)
(* ends the process (SystemExit is not caught by main).                    *)
(***************************************************************************)
\* the answers of a set of requests, agreeing with those already given
Answers(keys, known, all) ==
    {a \in [keys -> all] : \A k \in keys \cap DOMAIN known : a[k] = known[k]}
Asked(reqs) == {reqs[i][2] : i \in 1..Len(reqs)}
Learn(known, a, asked) ==
    [k \in DOMAIN known \cup asked |-> IF k \in asked THEN a[k] ELSE known[k]]

EnteredKey == "entered"

\* a setup that takes any outcome of the trial search for a valid key
TrialPassedAlways(r) == TRUE
\* if test_api.search_games(["test"]):
TrialPassed(r) == r.found

SetupApiKey ==
    /\ pc = "setup"
    /\ \E a \in Answers({"test"}, searchAns, SearchAnswers) :
         LET r == search_games(<<"test">>, a)
         IN  /\ searchAns' = Learn(searchAns, a, Asked(r.reqs))
             /\ trace' = trace \o r.reqs
             /\ log' = log \o RequestErrors(r.reqs, a, "API request failed")
             /\ IF TrialPassed(r)
                THEN /\ config' = EnteredKey
                     /\ api_key' = EnteredKey
                     /\ output' = output \o
                          <<Line("setup", 0, 0, "Enter your SteamGridDB API key", ""),
                            Line("setup", 0, 0, "API key validated and saved successfully!", "")>>
                     /\ pc' = "prompt"
                     /\ UNCHANGED <<error, exit_status>>
                ELSE /\ output' = output \o
                          <<Line("setup", 0, 0, "Enter your SteamGridDB API key", ""),
                            Line("setup", 0, 0, "Error validating API key", "")>>
                     /\ error' = "ValueError"
                     /\ exit_status' = 1
                     /\ pc' = "exit"
                     /\ UNCHANGED <<config, api_key>>
    /\ UNCHANGED <<run, db, files, gridAns, dlAns, wrAns,
                   dimension_str, cover_path, target_dimensions, crop_to_fit,
                   games, listing, total_games, index, cover_url, content,
                   state, store, choices, prev, call, crop,
                   questions, cache_dirs>>

(***************************************************************************)
(* The head of process_games: the cover type prompt and, for the cover     *)
(* dimensions only, the crop prompt.                                       *)
(***************************************************************************)
GetCoverType ==
    /\ pc = "prompt"
    /\ LET t == CoverType(choices[1])
       IN  /\ dimension_str' = t[1]
           /\ cover_path' = t[2]
           /\ target_dimensions' = t[3]
           /\ crop_to_fit' = IF t[3] = Config_COVER_DIMENSIONS
                             THEN CropToFitAnswer(choices[2]) ELSE FALSE
           /\ questions' = questions \o <<"Select cover art type:">>
                              \o (IF t[3] = Config_COVER_DIMENSIONS
                                  THEN <<"Crop images to fit?">> ELSE <<>>)
           \* cover_path.mkdir(parents=True, exist_ok=True)
           /\ cache_dirs' = cache_dirs \cup {t[2]}
    /\ pc' = "list"
    /\ UNCHANGED <<run, db, files, searchAns, gridAns, dlAns, wrAns, games,
                   listing, total_games, index, cover_url, content, state,
                   trace, error, exit_status, store, choices, prev, call, crop, output, log,
                   config, api_key>>

(***************************************************************************)
(* LutrisDB.get_all_games, called by process_games: the listing, or a      *)
(* sqlite3.Error that main turns into exit status 1.                       *)
(***************************************************************************)
GetAllGames ==
    /\ pc = "list"
    /\   IF store = "ok"
         THEN /\ games' = db
              /\ listing' = db
              /\ total_games' = Len(db)
              /\ state' = AllPending(Len(db))
              /\ pc' = "next"
              /\ output' = Append(output, Line("count", 0, Len(db),
                                                "Processing games", ""))
              /\ UNCHANGED <<error, exit_status, log>>
         ELSE \* logged by get_all_games, re-raised, logged by main
              /\ error' = "sqlite3.Error"
              /\ exit_status' = 1
              /\ pc' = "exit"
              /\ log' = log \o <<Record("error", "Database error", "",
                                        "sqlite3.Error"),
                                 Record("error", "Unexpected error", "",
                                        "sqlite3.Error")>>
              /\ UNCHANGED <<games, listing, total_games, state, output>>
    /\ index' = 0
    /\ UNCHANGED <<run, db, files, searchAns, gridAns, dlAns, wrAns,
                   dimension_str, cover_path, target_dimensions, crop_to_fit,
                   cover_url, content, trace, store, choices, prev, call,
                   crop,
                   setupVars>>

CoverFile(i) == <<cover_path, listing[i][2]>>

(***************************************************************************)
(* The head of the loop body: the next (name, slug) of the listing, and    *)
(* the cover_file.exists() test.                                           *)
(***************************************************************************)
NextGame ==
    /\ pc = "next"
    /\ index < Len(listing)
    /\ index' = index + 1
    /\ trace' = <<>>
    /\ IF Exists(CoverFile(index + 1))
       THEN /\ state' = [state EXCEPT ![index + 1] = "Skipped"]
            /\ pc' = "next"
            /\ output' = Append(output, Line("progress", index + 1,
                                              total_games, "Cover exists for",
                                              listing[index + 1][1]))
       ELSE /\ state' = state
            /\ pc' = "search"
            /\ output' = Append(output, Line("progress", index + 1,
                                              total_games, "Processing",
                                              listing[index + 1][1]))
    /\ UNCHANGED <<run, db, files, searchAns, gridAns, dlAns, wrAns,
                   dimension_str, cover_path, target_dimensions, crop_to_fit,
                   games, listing, total_games, cover_url, content,
                   error, exit_status, store, choices, prev, call, crop, log,
                   setupVars>>

\* the loop is exhausted: process_games returns, main prints and ends
LoopEnd ==
    /\ pc = "next"
    /\ index = Len(listing)
    /\ pc' = "exit"
    /\ exit_status' = 0
    /\ output' = Append(output, Line("done", 0, 0, "All done!", ""))
    /\ UNCHANGED <<run, db, files, searchAns, gridAns, dlAns, wrAns,
                   dimension_str, cover_path, target_dimensions, crop_to_fit,
                   games, listing, total_games, index, cover_url, content,
                   state, trace, error, store, choices, prev, call, crop,
                   log,
                   setupVars>>

(***************************************************************************)
(* games = self.api.search_games([game_name, game_slug]); if not games:    *)
(* continue                                                                *)
(***************************************************************************)
SearchStep ==
    /\ pc = "search"
    /\ LET game_name == listing[index][1]
           game_slug == listing[index][2]
       IN  \E a \in Answers({game_name, game_slug}, searchAns, SearchAnswers) :
             LET r == search_games(<<game_name, game_slug>>, a)
             IN  /\ searchAns' = Learn(searchAns, a, Asked(r.reqs))
                 /\ trace' = trace \o r.reqs
                 /\ log' = log \o RequestErrors(r.reqs, a,
                                                 "API request failed")
                 /\ games' = r.games
                 /\ IF r.found
                    THEN /\ pc' = "cover"
                         /\ state' = state
                    ELSE /\ pc' = "next"
                         /\ state' = [state EXCEPT ![index] = "NoMatch"]
    /\ UNCHANGED <<run, db, files, gridAns, dlAns, wrAns,
                   dimension_str, cover_path, target_dimensions, crop_to_fit,
                   listing, total_games, index, cover_url, content,
                   error, exit_status, store, choices, prev, call, crop,
                   output,
                   setupVars>>

(***************************************************************************)
(* cover_url = self.api.get_cover_url(games, dimension_str); if not        *)
(* cover_url: continue.  The call is outside the loop body's try block, so *)
(* an IndexError leaves process_games and main exits with status 1.        *)
(***************************************************************************)
GridAnswersFor(ids, known) ==
    {a \in [ids -> UNION {GridAnswers(id) : id \in ids}] :
        \A id \in ids :
            /\ a[id] \in GridAnswers(id)
            /\ id \in DOMAIN known => a[id] = known[id]}
CoverStep ==
    /\ pc = "cover"
    /\ LET ids == {games[i] : i \in 1..Len(games)}
       IN  \E a \in GridAnswersFor(ids, gridAns) :
             LET r == get_cover_url(games, a)
             IN  /\ gridAns' = Learn(gridAns, a, Asked(r.reqs))
                 /\ trace' = trace \o r.reqs
                 /\ cover_url' = r.url
                 /\ log' = log
                      \o RequestErrors(r.reqs, a, "Failed to get cover URL")
                      \o (IF r.raised # "none"
                          THEN <<Record("error", "Unexpected error", "",
                                        r.raised)>>
                          ELSE <<>>)
                 /\ IF r.raised # "none"
                    THEN /\ error' = r.raised
                         /\ exit_status' = 1
                         /\ pc' = "exit"
                         /\ state' = state
                    ELSE /\ UNCHANGED <<error, exit_status>>
                         /\ IF r.url = None
                            THEN /\ pc' = "next"
                                 /\ state' = [state EXCEPT ![index] = "NoCover"]
                            ELSE /\ pc' = "download"
                                 /\ state' = state
    /\ UNCHANGED <<run, db, files, searchAns, dlAns, wrAns,
                   dimension_str, cover_path, target_dimensions, crop_to_fit,
                   games, listing, total_games, index, content,
                   store, choices, prev, call, crop, output,
                   setupVars>>

(***************************************************************************)
(* response = requests.get(cover_url); response.raise_for_status()         *)
(***************************************************************************)
DownloadStep ==
    /\ pc = "download"
    /\ \E a \in Answers({cover_url}, dlAns, {"ok", "fail"}) :
         /\ dlAns' = Learn(dlAns, a, {cover_url})
         /\ trace' = Append(trace, <<"download", cover_url>>)
         /\ IF a[cover_url] = "ok"
            THEN /\ content' = Raw(cover_url)
                 /\ pc' = "write"
                 /\ state' = state
                 /\ log' = log
            ELSE \* except Exception: logged, continue
                 /\ content' = content
                 /\ pc' = "next"
                 /\ state' = [state EXCEPT ![index] = "DownloadFailed"]
                 /\ log' = Append(log, Record("error", "Failed to process",
                                              listing[index][2],
                                              "RequestException"))
    /\ UNCHANGED <<run, db, files, searchAns, gridAns, wrAns,
                   dimension_str, cover_path, target_dimensions, crop_to_fit,
                   games, listing, total_games, index, cover_url,
                   error, exit_status, store, choices, prev, call, crop,
                   output,
                   setupVars>>

(***************************************************************************)
(* cover_file.write_bytes(response.content): the whole content, or an      *)
(* OSError after a part of the content was written.  Without crop_to_fit   *)
(* the success line follows at once.                                       *)
(***************************************************************************)
\* write_bytes that writes nothing
WriteBytesNothing(path, bytes, outcome) == files
WriteBytes(path, bytes, outcome) ==
    [files EXCEPT ![path] = CASE outcome = "ok" -> bytes
                              [] outcome = "partial" -> Partial(bytes[2])
                              [] OTHER -> @]

WriteStep ==
    /\ pc = "write"
    /\ \E a \in Answers({CoverFile(index)}, wrAns, {"ok", "partial"}) :
         /\ wrAns' = Learn(wrAns, a, {CoverFile(index)})
         /\ trace' = Append(trace, <<"write", CoverFile(index)[2]>>)
         /\ files' = WriteBytes(CoverFile(index), content, a[CoverFile(index)])
         /\ IF a[CoverFile(index)] # "ok"
            THEN /\ pc' = "next"
                 /\ state' = [state EXCEPT ![index] = "WriteFailed"]
                 /\ log' = Append(log, Record("error", "Failed to process",
                                              listing[index][2], "OSError"))
                 /\ output' = output
            ELSE IF crop_to_fit
            THEN /\ pc' = "transform"
                 /\ state' = state
                 /\ UNCHANGED <<log, output>>
            ELSE /\ pc' = "next"
                 /\ state' = [state EXCEPT ![index] = "Done"]
                 /\ log' = log
                 /\ output' = Append(output,
                                     Line("success", 0, 0,
                                          "Successfully processed img for",
                                          listing[index][2]))
    /\ UNCHANGED <<run, db, searchAns, gridAns, dlAns,
                   dimension_str, cover_path, target_dimensions, crop_to_fit,
                   games, listing, total_games, index, cover_url, content,
                   error, exit_status, store, choices, prev, call, crop,
                   setupVars>>

(***************************************************************************)
(* ImageProcessor.crop_to_fit(cover_file, target_dimensions) as the        *)
(* pipeline sees it: the file re-encoded in place, or an exception that    *)
(* crop_to_fit logs and re-raises.  An error before the save (the image    *)
(* cannot be opened or decoded) leaves the file as it was; an error in     *)
(* final_img.save, which has opened the same path for writing, leaves it   *)
(* truncated.                                                              *)
(***************************************************************************)
CropOutcomes == {"ok", "decode_error", "save_error"}
\* CropFile that removes the file when the transformer fails
CropFileOrDelete(path, outcome) ==
    [files EXCEPT ![path] = IF outcome = "ok" THEN Cropped(@[2]) ELSE NoFile]
CropFile(path, outcome) ==
    [files EXCEPT ![path] = CASE outcome = "ok" -> Cropped(@[2])
                              [] outcome = "save_error" -> Truncated(@[2])
                              [] OTHER -> @]

TransformStep ==
    /\ pc = "transform"
    /\ \E outcome \in CropOutcomes :
         /\ files' = CropFile(CoverFile(index), outcome)
         /\ state' = [state EXCEPT ![index] =
                        IF outcome = "ok" THEN "Done" ELSE "TransformFailed"]
         /\ IF outcome = "ok"
            THEN /\ log' = log
                 /\ output' = Append(output,
                                     Line("success", 0, 0,
                                          "Successfully processed img for",
                                          listing[index][2]))
            ELSE \* logged by crop_to_fit, re-raised, logged by the loop
                 /\ log' = log \o <<Record("error", "Failed to process image",
                                            listing[index][2], outcome),
                                     Record("error", "Failed to process",
                                            listing[index][2], outcome)>>
                 /\ output' = output
    /\ trace' = Append(trace, <<"crop", CoverFile(index)[2]>>)
    /\ pc' = "next"
    /\ UNCHANGED <<run, db, searchAns, gridAns, dlAns, wrAns,
                   dimension_str, cover_path, target_dimensions, crop_to_fit,
                   games, listing, total_games, index, cover_url, content,
                   error, exit_status, store, choices, prev, call, crop,
                   setupVars>>

(***************************************************************************)
(* The program is started again on the same machine: the cache, the store  *)
(* and the catalog are as the last run left them.                          *)
(***************************************************************************)
RunAgain ==
    /\ pc = "exit"
    /\ run = 1
    /\ run' = run + 1
    /\ prev' = Snapshot(files, state, cover_path, crop_to_fit, error)
    /\ pc' = "start"
    /\ questions' = <<>> /\ api_key' = ""
    /\ dimension_str' = "" /\ cover_path' = "" /\ target_dimensions' = <<0, 0>>
    /\ crop_to_fit' = FALSE
    /\ games' = <<>> /\ listing' = <<>> /\ total_games' = 0 /\ index' = 0
    /\ cover_url' = None /\ content' = NoFile
    /\ state' = <<>> /\ trace' = <<>>
    /\ error' = "none" /\ exit_status' = -1
    /\ output' = <<>> /\ log' = <<>>
    /\ UNCHANGED <<db, files, searchAns, gridAns, dlAns, wrAns, store, choices,
                   call, crop,
                   cache_dirs, config>>

(***************************************************************************)
(* Python floats: IEEE-754 binary64, round to nearest, ties to even.  A    *)
(* positive float is [m, e] with value m * 2^e and 2^52 <= m < 2^53.  The  *)
(* mantissa does not fit a 32-bit integer, so it is kept as four           *)
(* limbs of 18 bits, least significant first.                              *)
(***************************************************************************)
MantBits == 53
Base == 2^18

\* F(v), with v evaluated once
Eval(v, F(_)) == CHOOSE r \in {F(a) : a \in {v}} : TRUE

Big(n) == <<n % Base, (n \div Base) % Base, 0, 0>>
BigInt(x) == x[1] + Base * x[2]
BigGeq(x, y) ==
    IF x[4] # y[4] THEN x[4] > y[4]
    ELSE IF x[3] # y[3] THEN x[3] > y[3]
    ELSE IF x[2] # y[2] THEN x[2] > y[2]
    ELSE x[1] >= y[1]
\* x * k + c for 0 <= k, c <= 2^12
BigMulAdd(x, k, c) ==
    LET p1 == x[1] * k + c
        p2 == x[2] * k + p1 \div Base
        p3 == x[3] * k + p2 \div Base
        p4 == x[4] * k + p3 \div Base
    IN  <<p1 % Base, p2 % Base, p3 % Base, p4>>
BigMul(x, k) == BigMulAdd(x, k, 0)
BigDouble(x) == BigMulAdd(x, 2, 0)
BigInc(x) == BigMulAdd(x, 1, 1)
\* x - y for x >= y
BigSub(x, y) ==
    LET d1 == x[1] - y[1]
        d2 == x[2] - y[2] + d1 \div Base
        d3 == x[3] - y[3] + d2 \div Base
        d4 == x[4] - y[4] + d3 \div Base
    IN  <<d1 % Base, d2 % Base, d3 % Base, d4>>
\* x \div d for 0 < d <= 2^12
BigDivSmall(x, d) ==
    LET q4 == x[4] \div d
        n3 == (x[4] % d) * Base + x[3]
        n2 == (n3 % d) * Base + x[2]
        n1 == (n2 % d) * Base + x[1]
    IN  <<n1 \div d, n2 \div d, n3 \div d, q4>>
BigOdd(x) == x[1] % 2 = 1
\* x \div 2^n
RECURSIVE BigShiftRight(_, _)
BigShiftRight(x, n) ==
    IF n = 0 THEN x
    ELSE IF n >= 18 THEN Eval(<<x[2], x[3], x[4], 0>>,
                              LAMBDA x2 : BigShiftRight(x2, n - 18))
    ELSE IF n >= 12 THEN Eval(BigDivSmall(x, 2^12),
                              LAMBDA x2 : BigShiftRight(x2, n - 12))
    ELSE BigDivSmall(x, 2^n)

\* x times a power of two, the least that makes x >= y; the exponent e is
\* lowered by the power
RECURSIVE ScaleUp(_, _, _)
ScaleUp(x, y, e) ==
    IF BigGeq(x, y) THEN <<x, e>>
    ELSE Eval(BigMul(x, 2^12), LAMBDA x12 :
           IF BigGeq(y, x12) THEN ScaleUp(x12, y, e - 12)
           ELSE Eval(BigDouble(x), LAMBDA x2 : ScaleUp(x2, y, e - 1)))
\* y times a power of two, the greatest that keeps y <= x; the exponent e
\* is raised by the power
RECURSIVE ScaleDown(_, _, _)
ScaleDown(x, y, e) ==
    Eval(BigMul(y, 2^12), LAMBDA y12 :
      IF BigGeq(x, y12) THEN ScaleDown(x, y12, e + 12)
      ELSE Eval(BigDouble(y), LAMBDA y2 :
             IF BigGeq(x, y2) THEN ScaleDown(x, y2, e + 1) ELSE <<y, e>>))

\* the greatest d + k * step (k >= 0, below d + 2 * step) times y that is
\* at most r: the digit r \div y, a bit at a time
RECURSIVE Digit(_, _, _, _)
Digit(r, y, d, step) ==
    IF step = 0 THEN d
    ELSE Eval(IF BigGeq(r, BigMul(y, d + step)) THEN d + step ELSE d,
              LAMBDA d2 : Digit(r, y, d2, step \div 2))

\* n more base-64 digits of the quotient r / y: <<quotient, remainder>>
RECURSIVE Quotient(_, _, _, _)
Quotient(r, y, q, n) ==
    IF n = 0 THEN <<q, r>>
    ELSE Eval(BigMul(r, 64), LAMBDA r64 :
           Eval(Digit(r64, y, 0, 32), LAMBDA d :
             Eval(<<BigSub(r64, BigMul(y, d)), BigMulAdd(q, 64, d)>>,
                  LAMBDA rq : Quotient(rq[1], y, rq[2], n - 1))))

\* the 55-bit quotient q (remainder r) of x * 2^54 / y, y <= x < 2y,
\* rounded to 53 bits; e is the exponent of x / y
RoundQuotient(q, r, e) ==
    Eval(BigDivSmall(q, 4), LAMBDA trunc :
      LET low == q[1] % 4
          roundUp == \/ low = 3
                     \/ low = 2 /\ r # Big(0)
                     \/ low = 2 /\ r = Big(0) /\ BigOdd(trunc)
      IN  Eval(IF roundUp THEN BigInc(trunc) ELSE trunc, LAMBDA m :
            IF m = <<0, 0, 2^(MantBits - 2 * 18), 0>>
            THEN [m |-> BigDivSmall(m, 2), e |-> e - MantBits + 2]
            ELSE [m |-> m, e |-> e - MantBits + 1]))

\* the float nearest to (x / y) * 2^e, for x, y > 0
FloatDiv(x, y, e) ==
    Eval(ScaleUp(x, y, e), LAMBDA up :
      Eval(ScaleDown(up[1], y, up[2]), LAMBDA dn :
        Eval(Quotient(BigSub(up[1], dn[1]), dn[1], Big(1), (MantBits + 1) \div 6),
             LAMBDA qr : RoundQuotient(qr[1], qr[2], dn[2]))))

\* a / b of two ints, k * f and k / f of an int and a float, f > g, int(f)
FloatOfQuotient(a, b) ==
    Eval(<<Big(a), Big(b)>>, LAMBDA ab : FloatDiv(ab[1], ab[2], 0))
FloatMulInt(k, f) ==
    Eval(<<BigMul(f.m, k), Big(1)>>, LAMBDA xy : FloatDiv(xy[1], xy[2], f.e))
FloatIntDiv(k, f) ==
    Eval(Big(k), LAMBDA x : FloatDiv(x, f.m, 0 - f.e))
FloatGt(f, g) == f.e > g.e \/ (f.e = g.e /\ f.m # g.m /\ BigGeq(f.m, g.m))
FloatToInt(f) ==
    IF f.e >= 0 THEN BigInt(f.m) * 2^f.e
    ELSE IF 0 - f.e >= 4 * 18 THEN 0
    ELSE Eval(BigShiftRight(f.m, 0 - f.e), LAMBDA x : BigInt(x))

(***************************************************************************)
(* ImageProcessor.crop_to_fit on an image of width x height pixels: the    *)
(* size it is resized to, the crop box, and the size of the image saved.   *)
(***************************************************************************)
ScaledSize(width, height, target) ==
    LET target_width == target[1]
        target_height == target[2]
    IN  Eval(FloatOfQuotient(target_width, target_height), LAMBDA target_ratio :
        Eval(FloatOfQuotient(width, height), LAMBDA current_ratio :
          IF FloatGt(current_ratio, target_ratio)
          THEN [wider |-> TRUE,
                new_width |-> Eval(FloatMulInt(target_height, current_ratio),
                                   LAMBDA f : FloatToInt(f)),
                new_height |-> target_height]
          ELSE [wider |-> FALSE,
                new_width |-> target_width,
                new_height |-> Eval(FloatIntDiv(target_width, current_ratio),
                                    LAMBDA f : FloatToInt(f))]))

\* CropBox with the right and bottom edges mirrored from the left and top
CropBoxMirrored(new_width, new_height, target) ==
    LET left == (new_width - target[1]) \div 2
        top == (new_height - target[2]) \div 2
    IN  [left |-> left, top |-> top,
         right |-> new_width - left, bottom |-> new_height - top]

CropBox(new_width, new_height, target) ==
    LET target_width == target[1]
        target_height == target[2]
        left == (new_width - target_width) \div 2
        top == (new_height - target_height) \div 2
        right == left + target_width
        bottom == top + target_height
    IN  [left |-> left, top |-> top, right |-> right, bottom |-> bottom]

\* Image.crop(box).size
CroppedSize(box) == <<box.right - box.left, box.bottom - box.top>>

ImageProcessor_crop_to_fit(width, height, target) ==
    Eval(ScaledSize(width, height, target), LAMBDA scaled :
      Eval(CropBox(scaled.new_width, scaled.new_height, target), LAMBDA box :
        [scaled |-> scaled, box |-> box, size |-> CroppedSize(box)]))

Next ==
    \/ Construct
    \/ SetupApiKey
    \/ GetCoverType
    \/ GetAllGames
    \/ NextGame
    \/ LoopEnd
    \/ SearchStep
    \/ CoverStep
    \/ DownloadStep
    \/ WriteStep
    \/ TransformStep
    \/ RunAgain

Spec == Init /\ [][Next]_vars

(***************************************************************************)
(* The catalog client called on its own: search_games on a list of names   *)
(* and get_cover_url on a ranked list of games, for every pattern of       *)
(* answers of the catalog.                                                 *)
(***************************************************************************)
\* main() is not running
PipelineOff ==
    /\ pc = "off" /\ run = 1 /\ db = <<>> /\ store = "ok"
    /\ choices = <<"Banner (460x215)", "-">>
    /\ files = [p \in Paths |-> NoFile]
    /\ searchAns = Empty /\ gridAns = Empty /\ dlAns = Empty /\ wrAns = Empty
    /\ dimension_str = "" /\ cover_path = "" /\ target_dimensions = <<0, 0>>
    /\ crop_to_fit = FALSE
    /\ games = <<>> /\ listing = <<>> /\ total_games = 0 /\ index = 0
    /\ cover_url = None /\ content = NoFile
    /\ state = <<>> /\ trace = <<>>
    /\ error = "none" /\ exit_status = -1
    /\ questions = <<>> /\ cache_dirs = {} /\ config = "stored"
    /\ api_key = ""
    /\ prev = Snapshot(files, <<>>, "", FALSE, "none")
    /\ output = <<>> /\ log = <<>>

NameList(n) == [i \in 1..n |-> <<"name", i>>]

SearchCalls ==
    UNION {{[op |-> "search_games", args |-> NameList(n), ans |-> a,
             done |-> FALSE, ret |-> <<>>] :
               a \in [{<<"name", i>> : i \in 1..n} -> SearchAnswers]} :
           n \in 0..MaxNames}
CoverCalls ==
    UNION {{[op |-> "get_cover_url", args |-> Ranked(n), ans |-> a,
             done |-> FALSE, ret |-> <<>>] :
               a \in {f \in [1..n -> UNION {GridAnswers(id) : id \in 1..n}] :
                         \A id \in 1..n : f[id] \in GridAnswers(id)}} :
           n \in 0..MaxCands}

InitClient ==
    /\ PipelineOff
    /\ (call \in SearchCalls \/ call \in CoverCalls)
    /\ crop = NoCrop

ClientSearch ==
    /\ call.op = "search_games" /\ ~call.done
    /\ call' = [call EXCEPT !.done = TRUE,
                            !.ret = search_games(call.args, call.ans)]
    /\ UNCHANGED <<pipeVars, crop>>

ClientCover ==
    /\ call.op = "get_cover_url" /\ ~call.done
    /\ call' = [call EXCEPT !.done = TRUE,
                            !.ret = get_cover_url(call.args, call.ans)]
    /\ UNCHANGED <<pipeVars, crop>>

NextClient == ClientSearch \/ ClientCover

SpecClient == InitClient /\ [][NextClient]_vars

(***************************************************************************)
(* crop_to_fit called on its own, on an image of every small size and on   *)
(* two larger ones, for every small target box and the two presets.        *)
(***************************************************************************)
SmallSizes == (1..MaxDim) \X (1..MaxDim)
ImageSizes == SmallSizes \cup {<<1200, 1600>>, Config_BANNER_DIMENSIONS}
TargetBoxes == SmallSizes \cup {Config_COVER_DIMENSIONS, Config_BANNER_DIMENSIONS}

InitCrop ==
    /\ PipelineOff
    /\ call = NoCall
    /\ crop \in {[op |-> "crop_to_fit", width |-> sz[1], height |-> sz[2],
                   target |-> t, done |-> FALSE, out |-> <<>>] :
                     sz \in ImageSizes, t \in TargetBoxes}

CropCall ==
    /\ crop.op = "crop_to_fit" /\ ~crop.done
    /\ crop' = [crop EXCEPT
                  !.done = TRUE,
                  !.out = ImageProcessor_crop_to_fit(crop.width, crop.height,
                                                     crop.target)]
    /\ UNCHANGED <<pipeVars, call>>

NextCrop == CropCall

SpecCrop == InitCrop /\ [][NextCrop]_vars

(***************************************************************************)
(* A run that the user may interrupt.  A KeyboardInterrupt raised inside   *)
(* process_games is not an Exception, so neither get_all_games' handler    *)
(* nor the loop body's except Exception catches it: it reaches main, which *)
(* prints a notice and exits with status 0.  Raised inside write_bytes it  *)
(* may leave a part of the content in the file; raised between the write   *)
(* and the end of crop_to_fit it leaves the downloaded bytes, or the file  *)
(* that final_img.save has opened and not yet filled.                      *)
(***************************************************************************)
InterruptedFiles ==
    CASE pc = "write" ->
           {files, WriteBytes(CoverFile(index), content, "partial"),
            WriteBytes(CoverFile(index), content, "ok")}
      [] pc = "transform" ->
           {files, CropFile(CoverFile(index), "save_error")}
      [] OTHER -> {files}

KeyboardInterrupt ==
    /\ pc \in {"list", "next", "search", "cover", "download", "write",
               "transform"}
    /\ files' \in InterruptedFiles
    /\ error' = "KeyboardInterrupt"
    /\ exit_status' = 0
    /\ pc' = "exit"
    /\ output' = Append(output, Line("cancelled", 0, 0,
                                      "Operation cancelled by user.", ""))
    /\ UNCHANGED <<run, db, searchAns, gridAns, dlAns, wrAns,
                   dimension_str, cover_path, target_dimensions, crop_to_fit,
                   games, listing, total_games, index, cover_url, content,
                   state, trace, store, choices, prev, call, crop, log,
                   setupVars>>

NextInterruptible == Next \/ KeyboardInterrupt

SpecInterruptible == Init /\ [][NextInterruptible]_vars

(***************************************************************************)
(* The claims.                                                             *)
(***************************************************************************)

\* C1: whatever the catalog, download and transform outcomes of the games,
\* a run that was not ended by a store (or configuration) error has brought
\* every game of the listing to a terminal state: no per-game outcome ends
\* the batch before the last game.
C1_EveryGameHandled ==
    (pc = "exit" /\ error # "sqlite3.Error")
        => \A i \in DOMAIN state : state[i] # "Pending"

\* C2: when the file of the next game exists at its turn, the game becomes
\* Skipped in that very step, with no request and no transformer call and
\* the cache unchanged; and no step changes a file that exists, other than
\* the transformer re-encoding the file written for the current game.
C2_SkipExisting ==
    [][ /\ (pc = "next" /\ index < Len(listing)
              /\ files[<<cover_path, listing[index + 1][2]>>] # NoFile)
           => /\ state'[index + 1] = "Skipped"
              /\ trace' = <<>>
              /\ files' = files
              /\ pc' = "next"
        /\ \A p \in Paths :
             (files[p] # NoFile /\ files'[p] # files[p])
                => (pc = "transform" /\ p = <<cover_path, listing[index][2]>>
                       /\ files[p] = Raw(cover_url)) ]_vars

\* C2's case: the second record of the listing has the slug of the first,
\* whose cover was written earlier in the same run
C2_Witness ==
    /\ run = 1 /\ index = 2 /\ pc = "next"
    /\ state[1] = "Done" /\ state[2] = "Skipped"
    /\ files[<<cover_path, listing[2][2]>>][1] \in {"raw", "cropped"}
    /\ trace = <<>>

\* C3 as stated: at the end of a second run the files are those the first
\* run left and all games are Skipped.
C3_AllSkippedInSecondRun ==
    (run = 2 /\ pc = "exit")
        => /\ files = prev.files
           /\ \A i \in DOMAIN state : state[i] = "Skipped"

\* C3 as amended: a second run never changes a file; a game it has handled
\* is Skipped if the first run left a file at its path, and otherwise is in
\* the state the first run left it in; and the second run ends as the first
\* did, having handled the same games.
C3_SecondRunRepeats ==
    run = 2 =>
        /\ files = prev.files
        /\ \A i \in DOMAIN state :
             state[i] # "Pending" =>
                IF prev.files[<<cover_path, listing[i][2]>>] # NoFile
                THEN state[i] = "Skipped"
                ELSE state[i] = prev.state[i]
        /\ pc = "exit" =>
             /\ error = prev.error
             /\ DOMAIN state = DOMAIN prev.state
             /\ \A i \in DOMAIN state :
                  state[i] = "Pending" <=> prev.state[i] = "Pending"

\* C3's case: the second run has ended, one game Done in the first run is
\* now Skipped and one game has failed again
C3_Witness ==
    /\ run = 2 /\ pc = "exit"
    /\ \E i, j \in DOMAIN state :
         /\ prev.state[i] = "Done" /\ state[i] = "Skipped"
         /\ prev.state[j] = "NoMatch" /\ state[j] = "NoMatch"

\* the first name of the list whose search answers a non-empty result,
\* 0 if there is none
FirstHit(args, ans) ==
    LET hits == {i \in 1..Len(args) :
                   ans[args[i]].status = "ok" /\ ans[args[i]].data # <<>>}
    IN  IF hits = {} THEN 0 ELSE CHOOSE i \in hits : \A j \in hits : i <= j

SearchDone == call.op = "search_games" /\ call.done
CoverDone == call.op = "get_cover_url" /\ call.done

\* C4: when the search for an earlier name answers an empty result and the
\* search for a later name is the first to answer a non-empty one,
\* search_games returns the later name's results.
C4_AdvanceOnEmpty ==
    LET hit == FirstHit(call.args, call.ans)
    IN  (SearchDone /\ hit > 0
           /\ \E i \in 1..(hit - 1) : call.ans[call.args[i]] = Ok(<<>>))
          => (call.ret.found /\ call.ret.games = call.ans[call.args[hit]].data)

\* C5: when a search request has failed, search_games has gone on to the
\* next name; it returns the results of the first name whose search
\* answers a non-empty result, and none only when no name does.
C5_AdvanceOnFailure ==
    LET hit == FirstHit(call.args, call.ans)
        n == Len(call.ret.reqs)
    IN  (SearchDone
           /\ \E i \in 1..n : call.ans[call.ret.reqs[i][2]] = Fail)
          => /\ \A i \in 1..n : call.ret.reqs[i] = <<"search", call.args[i]>>
             /\ \A i \in 1..n :
                  (call.ans[call.args[i]] = Fail /\ i < Len(call.args)) => i < n
             /\ IF hit > 0
                THEN call.ret.found
                       /\ call.ret.games = call.ans[call.args[hit]].data
                ELSE ~call.ret.found

\* C6: on a list of which some game has a cover, get_cover_url raises
\* nothing and returns the first cover's url of the first such game in
\* rank order, having requested exactly the games up to it, in order.
C6_FirstCoverOfFirstHit ==
    LET hit == FirstHit(call.args, call.ans)
    IN  (CoverDone /\ hit > 0)
          => /\ call.ret.raised = "none"
             /\ call.ret.url = call.ans[call.args[hit]].data[1]
             /\ call.ret.reqs = [i \in 1..hit |-> <<"grids", call.args[i]>>]

\* C6's case: two games and more, the first has no cover of the dimensions,
\* the second has, and the second's first url is returned
C6_Witness ==
    /\ CoverDone /\ Len(call.args) >= 2
    /\ call.ans[call.args[1]] = Ok(<<>>)
    /\ call.ans[call.args[2]] = Ok(Covers(call.args[2]))
    /\ call.ret.url = Covers(call.args[2])[1]
    /\ Len(call.ret.reqs) = 2

\* C7: when the cover lookup of the current game has been made and every
\* game of the search result failed or had no cover, nothing was raised,
\* the game is NoCover and the run goes on with the next game.
C7_ExhaustedIsNoCover ==
    ( /\ \E k \in 1..Len(trace) : trace[k][1] = "grids"
      /\ \A i \in 1..Len(games) :
           games[i] \in DOMAIN gridAns /\ gridAns[games[i]].data = <<>> )
        => (error = "none" /\ state[index] = "NoCover" /\ pc = "next")

\* C8: for every image size and target box, the crop box is
\* (left, top, left + targetW, top + targetH) with left and top the halves
\* of the excess, and the image saved has exactly the target's size.
C8_ExactSize ==
    (crop.op = "crop_to_fit" /\ crop.done) =>
        LET out == crop.out
            tw == crop.target[1]
            th == crop.target[2]
        IN  /\ out.box.left = (out.scaled.new_width - tw) \div 2
            /\ out.box.top = (out.scaled.new_height - th) \div 2
            /\ out.box.right - out.box.left = tw
            /\ out.box.bottom - out.box.top = th
            /\ out.size = crop.target

\* C8's case: an image wider than the target, resized to an odd excess of
\* width and cropped on both sides
C8_Witness ==
    /\ crop.op = "crop_to_fit" /\ crop.done
    /\ crop.out.scaled.wider
    /\ (crop.out.scaled.new_width - crop.target[1]) % 2 = 1
    /\ crop.out.box.left > 0
    /\ crop.out.size = crop.target

\* C9: for every image size and target box, the size the image is resized
\* to covers the target: new_width >= targetW and new_height >= targetH,
\* the height equal to targetH when the image's ratio is the greater and
\* the width equal to targetW otherwise, so the crop box lies inside.
C9_FillInvariant ==
    (crop.op = "crop_to_fit" /\ crop.done) =>
        LET out == crop.out
            tw == crop.target[1]
            th == crop.target[2]
        IN  /\ out.scaled.new_width >= tw
            /\ out.scaled.new_height >= th
            /\ IF crop.width * th > tw * crop.height
               THEN out.scaled.new_height = th
               ELSE out.scaled.new_width = tw
            /\ out.box.left >= 0 /\ out.box.top >= 0
            /\ out.box.right <= out.scaled.new_width
            /\ out.box.bottom <= out.scaled.new_height

\* C10: a game that ended in TransformFailed has its file on disk, holding
\* the bytes that were downloaded.
C10_RawKeptOnTransformFailure ==
    \A i \in DOMAIN state :
        state[i] = "TransformFailed"
            => files[<<cover_path, listing[i][2]>>][1] = "raw"

\* C11: when an interrupt has ended the run while a game was being
\* handled, the file of that game is absent or complete for the run's
\* selection (the downloaded bytes, transformed when crop-to-fit is
\* selected), so that no later run skips an incomplete file.
C11_InterruptLeavesNoIncompleteFile ==
    (pc = "exit" /\ error = "KeyboardInterrupt"
       /\ index \in DOMAIN state /\ state[index] = "Pending")
        => LET f == files[<<cover_path, listing[index][2]>>]
           IN  f = NoFile
                 \/ f = (IF crop_to_fit THEN Cropped(cover_url)
                                        ELSE Raw(cover_url))

\* the [index/total] lines printed so far by this run
ProgressLines == SelectSeq(output, LAMBDA l : l[1] = "progress")

\* C12: a run that has listed a library of n records and has ended has
\* printed one progress line for every record, the i-th line carrying
\* index i, total n and the name of the i-th record of the listing,
\* whatever the outcomes of the games.
C12_EveryRecordHasItsLine ==
    (pc = "exit" /\ \E k \in 1..Len(output) : output[k][1] = "count")
        => /\ Len(ProgressLines) = Len(db)
           /\ \A i \in 1..Len(ProgressLines) :
                /\ ProgressLines[i][2] = i
                /\ ProgressLines[i][3] = Len(db)
                /\ ProgressLines[i][5] = db[i][1]

FailureStates == {"NoMatch", "NoCover", "DownloadFailed", "TransformFailed"}

\* C13: as soon as a game is in a failure state, the log of the run holds
\* a record whose message names the game, by its name or its slug, together
\* with the exception that made it fail.
C13_FailureIsLogged ==
    \A i \in DOMAIN state :
        state[i] \in FailureStates
            => \E k \in 1..Len(log) :
                  log[k][3] \in {listing[i][1], listing[i][2]}

StoreErrors == {"FileNotFoundError", "sqlite3.Error"}

\* C14 as stated: a run ended by a store error has exit status 1, has
\* processed no game, and has left the cache as it found it: the files and
\* the directories; when the store's path was missing it has shown no
\* prompt and listed nothing.
C14_StoreErrorLeavesCacheUntouched ==
    (pc = "exit" /\ error \in StoreErrors)
        => /\ exit_status = 1
           /\ state = <<>> /\ index = 0
           /\ files = prev.files
           /\ cache_dirs = prev.cache_dirs
           /\ error = "FileNotFoundError"
                => (questions = <<>> /\ listing = <<>>)

\* C14 as amended: a missing store path ends the run in the first step of
\* main, with status 1 and before any prompt, catalog request or listing,
\* and leaves the cache untouched; a failing listing query ends the run
\* with status 1, no game processed and no file written or changed, the
\* only change to the cache being that the directory of the chosen cover
\* type has been created if it did not exist.
C14_StoreErrorsAreFatal ==
    /\ [](   (pc = "exit" /\ error \in StoreErrors)
          => /\ exit_status = 1
             /\ state = <<>> /\ index = 0
             /\ files = prev.files
             /\ IF error = "FileNotFoundError"
                THEN /\ cache_dirs = prev.cache_dirs
                     /\ questions = <<>> /\ listing = <<>>
                ELSE cache_dirs = prev.cache_dirs \cup {cover_path})
    /\ [][ /\ (pc = "start" /\ store = "missing")
               => /\ pc' = "exit" /\ error' = "FileNotFoundError"
                  /\ UNCHANGED <<files, cache_dirs, searchAns, gridAns,
                                 dlAns, questions, listing, config>>
           /\ (pc = "list" /\ store = "unreadable")
               => /\ pc' = "exit" /\ error' = "sqlite3.Error"
                  /\ UNCHANGED <<files, cache_dirs, searchAns, gridAns,
                                 dlAns, listing, state, config>> ]_vars

\* C14's case: the listing query has failed after the prompts were shown
\* and the missing cache directory was created
C14_Witness ==
    /\ pc = "exit" /\ error = "sqlite3.Error" /\ exit_status = 1
    /\ Len(questions) = 2
    /\ cover_path \in cache_dirs \ prev.cache_dirs
    /\ files = prev.files

C16_OneRequestPerCandidate ==
    (SearchDone \/ CoverDone) =>
        LET reqs == call.ret.reqs
            kind == IF call.op = "search_games" THEN "search" ELSE "grids"
            hit == FirstHit(call.args, call.ans)
        IN  /\ Len(reqs) <= Len(call.args)
            /\ \A i \in 1..Len(reqs) : reqs[i] = <<kind, call.args[i]>>
            /\ Len(reqs) = (IF hit > 0 THEN hit ELSE Len(call.args))

Banner == choices[1] = "Banner (460x215)"
VerticalYes == choices = <<"Vertical (600x900)", "Yes">>

\* C17: the crop prompt is shown in a Vertical run only; the selection of
\* a run is "460x215" into banners for Banner and "600x900" into coverart
\* for Vertical, and files change in that directory only; the transformer
\* is called only in a Vertical run answered Yes, on the file just written
\* and with the preset (675, 900), and in such a run every successful
\* write is followed by it; in a Banner run no file is ever transformed
\* and the file of a Done game holds the downloaded bytes.
C17_TransformOnlyIfSelected ==
    /\ [](/\ questions # <<>> =>
               /\ questions = (IF Banner
                               THEN <<"Select cover art type:">>
                               ELSE <<"Select cover art type:",
                                      "Crop images to fit?">>)
               /\ <<dimension_str, cover_path, target_dimensions>>
                    = (IF Banner
                       THEN <<"460x215", "banners", Config_BANNER_DIMENSIONS>>
                       ELSE <<"600x900", "coverart", Config_COVER_DIMENSIONS>>)
               /\ crop_to_fit = VerticalYes
          /\ Banner =>
               /\ pc # "transform"
               /\ \A p \in Paths : files[p][1] \notin {"cropped", "truncated"}
               /\ \A i \in DOMAIN state :
                    state[i] = "Done"
                       => files[<<cover_path, listing[i][2]>>][1] = "raw")
    /\ [][ /\ pc = "transform" =>
               /\ VerticalYes
               /\ target_dimensions = Config_COVER_DIMENSIONS
               /\ trace[Len(trace)] = <<"write", listing[index][2]>>
               /\ files[<<"coverart", listing[index][2]>>] = Raw(cover_url)
               /\ trace' = Append(trace, <<"crop", listing[index][2]>>)
           /\ (pc = "write" /\ VerticalYes
                 /\ files'[<<"coverart", listing[index][2]>>] = Raw(cover_url))
               => pc' = "transform"
           /\ pc = "cover" => dimension_str =
                                (IF Banner THEN "460x215" ELSE "600x900")
           /\ \A p \in Paths :
                files'[p] # files[p]
                   => p[1] = (IF Banner THEN "banners" ELSE "coverart") ]_vars

\* C17's case: in a Vertical run answered Yes the transformer has just been
\* called on the file written for the current game
C17_Witness ==
    /\ VerticalYes /\ pc = "next" /\ index \in DOMAIN state
    /\ state[index] = "Done"
    /\ Len(trace) >= 2
    /\ trace[Len(trace) - 1] = <<"write", listing[index][2]>>
    /\ trace[Len(trace)] = <<"crop", listing[index][2]>>
    /\ files[<<"coverart", listing[index][2]>>] = Cropped(cover_url)
    /\ questions = <<"Select cover art type:", "Crop images to fit?">>

TrialSucceeded ==
    /\ "test" \in DOMAIN searchAns
    /\ searchAns["test"].status = "ok" /\ searchAns["test"].data # <<>>

\* C18: the configuration file changes only in the setup, which runs only
\* when the stored key is empty, and only to the entered key after a trial
\* search that returned a non-empty result, and that key is then the key
\* of the batch; after any other trial the file is unchanged, the process
\* exits with status 1 and no prompt was shown and no game was listed or
\* processed; the batch always runs with the key of the file.
C18_KeyPersistedIfValid ==
    /\ [](/\ (pc = "exit" /\ error = "ValueError")
               => /\ exit_status = 1 /\ config = "" /\ ~TrialSucceeded
                  /\ questions = <<>> /\ listing = <<>> /\ state = <<>>
                  /\ files = prev.files
          /\ pc \in {"prompt", "list", "next", "search", "cover",
                      "download", "write", "transform"}
               => (api_key = config /\ config # ""))
    /\ [][ /\ pc = "setup" =>
               /\ config = ""
               /\ IF TrialSucceeded'
                  THEN /\ config' = EnteredKey /\ api_key' = EnteredKey
                       /\ pc' = "prompt"
                  ELSE /\ config' = config
                       /\ pc' = "exit" /\ exit_status' = 1
           /\ config' # config => (pc = "setup" /\ TrialSucceeded')
           /\ (pc = "start" /\ config # "") => pc' # "setup" ]_vars

\* C18's case: the stored key was empty, the trial search found games, the
\* entered key is in the file and a game was processed with it
C18_Witness ==
    /\ run = 1 /\ pc = "exit" /\ error = "none"
    /\ prev.config = "" /\ config = EnteredKey /\ api_key = EnteredKey
    /\ TrialSucceeded
    /\ \E i \in DOMAIN state : state[i] = "Done"

=============================================================================
